---- MODULE Spec2Model ----
(***************************************************************************)
(* Bitboard core of the chess engine: Square indexing (Square.py), the     *)
(* bitboard primitives (BitBoard.py) and the precomputed attack tables     *)
(* (MovementRules.py).                                                     *)
(*                                                                         *)
(* A numpy unsigned integer of width w is modelled by the set of the       *)
(* positions of its 1 bits, a subset of 0..w-1: a 64-bit bitboard cannot   *)
(* be held in a model-checker integer, and the code only ever combines     *)
(* bitboards bitwise, by shifts and by wrapping +, - and *.                *)
(***************************************************************************)
EXTENDS Integers, Sequences, FiniteSets

(* ------------------------------------------------------------------ *)
(* Fixed-width unsigned arithmetic (numpy uint64 / uint8 scalars)      *)
(* ------------------------------------------------------------------ *)

W64 == 64
W8 == 8

Word(w) == 0 .. (w - 1)

And(a, b) == a \cap b
Or(a, b) == a \cup b
Xor(a, b) == (a \ b) \cup (b \ a)
Not(w, a) == Word(w) \ a

\* a << k and a >> k for 0 <= k < w: bits shifted past either end are dropped
Shl(w, a, k) == {i + k : i \in a} \cap Word(w)
Shr(w, a, k) == {i - k : i \in a} \cap Word(w)

\* the number held in bits 8j .. 8j+7 of a (its j-th byte)
Byte(a, j) ==
    (IF 8 * j \in a THEN 1 ELSE 0) + (IF 8 * j + 1 \in a THEN 2 ELSE 0) +
    (IF 8 * j + 2 \in a THEN 4 ELSE 0) + (IF 8 * j + 3 \in a THEN 8 ELSE 0) +
    (IF 8 * j + 4 \in a THEN 16 ELSE 0) + (IF 8 * j + 5 \in a THEN 32 ELSE 0) +
    (IF 8 * j + 6 \in a THEN 64 ELSE 0) + (IF 8 * j + 7 \in a THEN 128 ELSE 0)

\* the bytes of a w-bit value, least significant first (index 0 .. w/8 - 1)
Bytes(w, a) == [j \in 0 .. (w \div 8) - 1 |-> Byte(a, j)]

\* the w-bit value whose bytes are B
FromBytes(w, B) == {i \in Word(w) : (B[i \div 8] \div (2 ^ (i % 8))) % 2 = 1}

RECURSIVE AddFrom(_, _, _, _, _)
\* byte-wise addition with carry from byte j upward; the carry out of the
\* top byte is lost
AddFrom(n, A, B, j, carry) ==
    IF j = n THEN <<>>
    ELSE LET s == A[j] + B[j] + carry
         IN  <<s % 256>> \o AddFrom(n, A, B, j + 1, s \div 256)

\* a + b modulo 2^w
Add(w, a, b) ==
    LET r == AddFrom(w \div 8, Bytes(w, a), Bytes(w, b), 0, 0)
    IN  FromBytes(w, [j \in 0 .. (w \div 8) - 1 |-> r[j + 1]])

\* -a modulo 2^w (two's complement: ~a + 1)
Neg(w, a) == Add(w, Not(w, a), {0})

\* a - b modulo 2^w
Sub(w, a, b) == Add(w, a, Neg(w, b))

RECURSIVE Column(_, _, _, _)
\* A[0]*B[k] + A[1]*B[k-1] + ... + A[i]*B[k-i]
Column(A, B, k, i) ==
    IF i < 0 THEN 0 ELSE A[i] * B[k - i] + Column(A, B, k, i - 1)

RECURSIVE MulFrom(_, _, _, _, _)
\* long multiplication in base 256 from byte k upward; bytes >= n are lost
MulFrom(n, A, B, k, carry) ==
    IF k = n THEN <<>>
    ELSE LET s == Column(A, B, k, k) + carry
         IN  <<s % 256>> \o MulFrom(n, A, B, k + 1, s \div 256)

\* a * b modulo 2^w
Mul(w, a, b) ==
    LET r == MulFrom(w \div 8, Bytes(w, a), Bytes(w, b), 0, 0)
    IN  FromBytes(w, [j \in 0 .. (w \div 8) - 1 |-> r[j + 1]])

\* the number a bit set within 0..7 stands for
ToNat(a) == Byte(a, 0)

\* the bit set of a number 0 <= n < 2^w
ToBits(w, n) == {i \in Word(w) : (n \div (2 ^ i)) % 2 = 1}

\* a 64-bit literal written as its 16 hexadecimal digits, most significant first
Hex64(digits) ==
    {4 * (16 - p) + j : p \in 1 .. 16, j \in 0 .. 3} \cap
    {b \in Word(W64) : (digits[16 - (b \div 4)] \div (2 ^ (b % 4))) % 2 = 1}

EMPTY_BB == {}

(* ------------------------------------------------------------------ *)
(* Square.py                                                           *)
(* ------------------------------------------------------------------ *)

\* what a call ends in: the value returned, or the exception raised
Returned(v) == [exc |-> "none", val |-> v]
Raised(e) == [exc |-> e, val |-> -1]

\* np.uint8(n) of a Python integer: 0..255 are kept; outside it the numpy
\* release decides (2.x raises OverflowError, 1.x wraps modulo 256)
uint8(n) ==
    IF n \in 0 .. 255 THEN {Returned(n)}
    ELSE {Raised("OverflowError"), Returned(n % 256)}

\* Square.__init__: the stored sqIdx
Square(squareIndex) == uint8(squareIndex)

\* str(n) of a non-negative integer, as the codes of its decimal digits
RECURSIVE DecimalStr(_)
DecimalStr(n) ==
    IF n < 10 THEN <<48 + n>>
    ELSE DecimalStr(n \div 10) \o <<48 + (n % 10)>>

OrdA == 97

\* mutant of SquareStr: the rank digit printed 0-based
SquareStrZeroBased(sqIdx) == <<(sqIdx % 8) + OrdA>> \o DecimalStr(sqIdx \div 8)

\* Square.__str__: chr(sqIdx % 8 + ord("a")) + str(sqIdx // 8 + 1)
SquareStr(sqIdx) == <<(sqIdx % 8) + OrdA>> \o DecimalStr((sqIdx \div 8) + 1)

\* int(c) of a one-character ASCII string: its digit value, else ValueError
IntOfChar(c) ==
    IF c \in 48 .. 57 THEN Returned(c - 48) ELSE Raised("ValueError")

\* Square.getSquareFromString: a string is the sequence of its character
\* codes; statements run in source order, the first exception ends the call
getSquareFromString(squareString) ==
    IF Len(squareString) < 1 THEN {Raised("IndexError")}
    ELSE UNION {
        IF f.exc # "none" THEN {f}
        ELSE IF Len(squareString) < 2 THEN {Raised("IndexError")}
        ELSE LET d == IntOfChar(squareString[2])
             IN  IF d.exc # "none" THEN {d}
                 ELSE UNION {
                     IF r.exc # "none" THEN {r}
                     ELSE Square(ToNat(Or(Shl(W8, ToBits(W8, r.val), 3),
                                          ToBits(W8, f.val))))
                     : r \in uint8(d.val - 1) }
        : f \in uint8(squareString[1] - OrdA) }

\* Square.toBitBoard for a stored index below 64: np.uint64(1) << sqIdx
toBitBoard(sqIdx) == Shl(W64, {0}, sqIdx)

\* Square.toBitBoard for any stored uint8: a shift count of 64 or more gives 0
\* in numpy since 1.18 and is undefined in C before (x86 shifts by count % 64)
toBitBoardAny(sqIdx) ==
    IF sqIdx < W64 THEN {toBitBoard(sqIdx)}
    ELSE {EMPTY_BB, toBitBoard(sqIdx % W64)}

(* ------------------------------------------------------------------ *)
(* BitBoard.py                                                         *)
(* ------------------------------------------------------------------ *)

debruijn == Hex64(<<0, 3, 15, 7, 9, 13, 7, 1, 11, 4, 12, 11, 0, 10, 8, 9>>)

ls1b_lookup ==
    << 0,  1, 48,  2, 57, 49, 28,  3,
      61, 58, 50, 42, 38, 29, 17,  4,
      62, 55, 59, 36, 53, 51, 43, 22,
      45, 39, 33, 30, 24, 18, 12,  5,
      63, 47, 56, 27, 60, 41, 37, 16,
      54, 35, 52, 21, 44, 32, 23, 11,
      46, 26, 40, 15, 34, 20, 31, 10,
      25, 14, 19,  9, 13,  8,  7,  6>>

msb_lookup ==
    << 0, 47,  1, 56, 48, 27,  2, 60,
      57, 49, 41, 37, 28, 16,  3, 61,
      54, 58, 35, 52, 50, 42, 21, 44,
      38, 32, 29, 23, 17, 11,  4, 62,
      46, 55, 26, 59, 40, 36, 15, 53,
      34, 51, 20, 43, 31, 22, 10, 45,
      25, 39, 14, 33, 19, 30,  9, 24,
      13, 18,  8, 12,  7,  6,  5, 63>>

\* table[(x * debruijn) >> 58]; sequences are 1-based, numpy arrays 0-based
DeBruijnIndex(x) == ToNat(Shr(W64, Mul(W64, x, debruijn), 58)) + 1

\* mutant of FillDown: the last step (bb |= bb >> 32) left out
FillDownTo16(bb) ==
    LET b1 == Or(bb, Shr(W64, bb, 1))
        b2 == Or(b1, Shr(W64, b1, 2))
        b3 == Or(b2, Shr(W64, b2, 4))
        b4 == Or(b3, Shr(W64, b3, 8))
    IN  Or(b4, Shr(W64, b4, 16))

\* the fill-down of msbBitScan: bb |= bb >> 1, 2, 4, 8, 16, 32 in turn
FillDown(bb) ==
    LET b1 == Or(bb, Shr(W64, bb, 1))
        b2 == Or(b1, Shr(W64, b1, 2))
        b3 == Or(b2, Shr(W64, b2, 4))
        b4 == Or(b3, Shr(W64, b3, 8))
        b5 == Or(b4, Shr(W64, b4, 16))
    IN  Or(b5, Shr(W64, b5, 32))

msbBitScan(bb) == msb_lookup[DeBruijnIndex(FillDown(bb))]

\* mutant of ls1bBitScan: the lowest bit is not isolated before the multiply
ls1bBitScanNoIsolate(bb) == ls1b_lookup[DeBruijnIndex(bb)]

ls1bBitScan(bb) == ls1b_lookup[DeBruijnIndex(And(bb, Neg(W64, bb)))]

RECURSIVE populationCount(_)
\* Kernighan's loop: count += 1; bb &= bb - 1 while bb is non-zero
populationCount(bb) ==
    IF bb = EMPTY_BB THEN 0
    ELSE 1 + populationCount(And(bb, Sub(W64, bb, {0})))

(* ------------------------------------------------------------------ *)
(* MovementRules.py                                                    *)
(* ------------------------------------------------------------------ *)

FileA == 0
FileB == 1
FileG == 6
FileH == 7

\* FILES[i] = 0x0101010101010101 << i
FILES == [i \in 0 .. 7 |->
             Shl(W64, Hex64(<<0, 1, 0, 1, 0, 1, 0, 1, 0, 1, 0, 1, 0, 1, 0, 1>>), i)]

\* RANKS[i] = 0x00000000000000FF << 8*i
RANKS == [i \in 0 .. 7 |->
             Shl(W64, Hex64(<<0, 0, 0, 0, 0, 0, 0, 0, 0, 0, 0, 0, 0, 0, 15, 15>>), 8 * i)]

\* the value a call on an in-range argument returns
TheSquare(i) == (CHOOSE o \in Square(i) : o.exc = "none").val

\* mutant of getKingMovesFromSquareIndex: the << 1 step without its file-H guard
getKingMovesUnguarded(i) ==
    LET bb == toBitBoard(TheSquare(i))
        ne == Shl(W64, And(bb, Not(W64, FILES[FileA])), 7)
        n  == Shl(W64, bb, 8)
        nw == Shl(W64, And(bb, Not(W64, FILES[FileH])), 9)
        w  == Shl(W64, bb, 1)
        se == Shr(W64, And(bb, Not(W64, FILES[FileH])), 7)
        s  == Shr(W64, bb, 8)
        sw == Shr(W64, And(bb, Not(W64, FILES[FileA])), 9)
        e  == Shr(W64, And(bb, Not(W64, FILES[FileA])), 1)
    IN  Or(nw, Or(n, Or(ne, Or(e, Or(se, Or(s, Or(sw, w)))))))

getKingMovesFromSquareIndex(i) ==
    LET bb == toBitBoard(TheSquare(i))
        ne == Shl(W64, And(bb, Not(W64, FILES[FileA])), 7)
        n  == Shl(W64, bb, 8)
        nw == Shl(W64, And(bb, Not(W64, FILES[FileH])), 9)
        w  == Shl(W64, And(bb, Not(W64, FILES[FileH])), 1)
        se == Shr(W64, And(bb, Not(W64, FILES[FileH])), 7)
        s  == Shr(W64, bb, 8)
        sw == Shr(W64, And(bb, Not(W64, FILES[FileA])), 9)
        e  == Shr(W64, And(bb, Not(W64, FILES[FileA])), 1)
    IN  Or(nw, Or(n, Or(ne, Or(e, Or(se, Or(s, Or(sw, w)))))))

\* np.fromiter(... for i in range(64))
KING_MOVES == [i \in 0 .. 63 |-> getKingMovesFromSquareIndex(i)]

\* mutant of getKnightMovesFromSquareIndex: the two-file steps guarded by one
\* edge file only
getKnightMovesOneFileGuard(i) ==
    LET bb == toBitBoard(TheSquare(i))
        m2 == Not(W64, FILES[FileA])
        m3 == Not(W64, FILES[FileH])
        s1 == Shl(W64, And(bb, m2), 6)
        s2 == Shl(W64, And(bb, m2), 15)
        s3 == Shl(W64, And(bb, m3), 17)
        s4 == Shl(W64, And(bb, m3), 10)
        s5 == Shr(W64, And(bb, m3), 6)
        s6 == Shr(W64, And(bb, m3), 15)
        s7 == Shr(W64, And(bb, m2), 17)
        s8 == Shr(W64, And(bb, m2), 10)
    IN  Or(s1, Or(s2, Or(s3, Or(s4, Or(s5, Or(s6, Or(s7, s8)))))))

getKnightMovesFromSquareIndex(i) ==
    LET bb == toBitBoard(TheSquare(i))
        m1 == Not(W64, Or(FILES[FileA], FILES[FileB]))
        m2 == Not(W64, FILES[FileA])
        m3 == Not(W64, FILES[FileH])
        m4 == Not(W64, Or(FILES[FileH], FILES[FileG]))
        s1 == Shl(W64, And(bb, m1), 6)
        s2 == Shl(W64, And(bb, m2), 15)
        s3 == Shl(W64, And(bb, m3), 17)
        s4 == Shl(W64, And(bb, m4), 10)
        s5 == Shr(W64, And(bb, m4), 6)
        s6 == Shr(W64, And(bb, m3), 15)
        s7 == Shr(W64, And(bb, m2), 17)
        s8 == Shr(W64, And(bb, m1), 10)
    IN  Or(s1, Or(s2, Or(s3, Or(s4, Or(s5, Or(s6, Or(s7, s8)))))))

KNIGHT_MOVES == [i \in 0 .. 63 |-> getKnightMovesFromSquareIndex(i)]

\* left_ray = lambda x: x - 1, on uint8
left_ray(x) == Sub(W8, x, {0})

\* right_ray = lambda x: (~x) & ~(x - 1), on uint8
right_ray(x) == And(Not(W8, x), Not(W8, Sub(W8, x, {0})))

\* mutant of compute_first_rank_moves: the right ray is not cut at its blocker
computeFirstRankMovesRightUncut(i, occ) ==
    LET x == Shl(W8, {0}, i)
        o == ToBits(W8, occ)
        left_attacks0 == left_ray(x)
        left_blockers == And(left_attacks0, o)
        leftmost == Shl(W8, {0}, msbBitScan(left_blockers))
        left_attacks ==
            IF left_blockers # {} THEN Xor(left_attacks0, left_ray(leftmost))
            ELSE left_attacks0
    IN  Xor(left_attacks, right_ray(x))

\* i is a line position 0..7, occ a number 0..255; the result is a uint8
compute_first_rank_moves(i, occ) ==
    LET x == Shl(W8, {0}, i)
        o == ToBits(W8, occ)
        left_attacks0 == left_ray(x)
        left_blockers == And(left_attacks0, o)
        leftmost == Shl(W8, {0}, msbBitScan(left_blockers))
        left_attacks ==
            IF left_blockers # {} THEN Xor(left_attacks0, left_ray(leftmost))
            ELSE left_attacks0
        right_attacks0 == right_ray(x)
        right_blockers == And(right_attacks0, o)
        rightmost == Shl(W8, {0}, ls1bBitScan(right_blockers))
        right_attacks ==
            IF right_blockers # {} THEN Xor(right_attacks0, right_ray(rightmost))
            ELSE right_attacks0
    IN  Xor(left_attacks, right_attacks)

\* np.fromiter(... for i in range(8) for occ in range(256)): the flat array
FirstRankFlat == [k \in 0 .. 2047 |-> compute_first_rank_moves(k \div 256, k % 256)]

\* FIRST_RANK_MOVES.shape = (8, 256): row-major view of the flat array
FIRST_RANK_MOVES == [i \in 0 .. 7 |-> [occ \in 0 .. 255 |-> FirstRankFlat[256 * i + occ]]]

(* ------------------------------------------------------------------ *)
(* Constants.py, and the single-square helpers of BitBoard.py          *)
(* ------------------------------------------------------------------ *)

WHITE == 0
BLACK == 1
Colors == {WHITE, BLACK}

PAWN == 0
KNIGHT == 1
BISHOP == 2
ROOK == 3
QUEEN == 4
KING == 5
PieceTypes == {PAWN, KNIGHT, BISHOP, ROOK, QUEEN, KING}

\* (sq.toBitBoard() & bb) != EMPTY_BB
checkIfSquareIsSet(b, sqIdx) == And(toBitBoard(sqIdx), b) # EMPTY_BB

\* (~sq.toBitBoard()) & bb
clearSquareOnBB(b, sqIdx) == And(Not(W64, toBitBoard(sqIdx)), b)

\* sq.toBitBoard() | bb
setSquareOnBB(b, sqIdx) == Or(toBitBoard(sqIdx), b)

(* ------------------------------------------------------------------ *)
(* MovementRules.py: pawn tables and diagonal masks                    *)
(* ------------------------------------------------------------------ *)

RankTwo == 1
RankSeven == 6

\* shift_forward = lambda bb, color, i:
\*     bb << np.uint(8*i) if color == Color.WHITE else bb >> np.uint8(8*i)
shift_forward(b, c, i) ==
    IF c = WHITE THEN Shl(W64, b, 8 * i) ELSE Shr(W64, b, 8 * i)

\* mutant of getNoCapturePawnMovesFromSquareIndex: the double step taken from
\* every rank
getNoCapturePawnMovesAnyRank(c, i) ==
    LET bb == toBitBoard(TheSquare(i))
        s1 == shift_forward(bb, c, 1)
        s2 == shift_forward(bb, c, 2)
    IN  Or(s1, s2)

getNoCapturePawnMovesFromSquareIndex(c, i) ==
    LET starting_rank == IF c = WHITE THEN RANKS[RankTwo] ELSE RANKS[RankSeven]
        bb == toBitBoard(TheSquare(i))
        s1 == shift_forward(bb, c, 1)
        s2 == shift_forward(And(bb, starting_rank), c, 2)
    IN  Or(s1, s2)

\* np.fromiter(... for color in Color for i in range(64)): the flat array
PawnNoCaptureFlat ==
    [k \in 0 .. 127 |-> getNoCapturePawnMovesFromSquareIndex(k \div 64, k % 64)]

\* PAWN_NO_CAPTURE.shape = (2, 64): row-major view of the flat array
PAWN_NO_CAPTURE ==
    [c \in 0 .. 1 |-> [i \in 0 .. 63 |-> PawnNoCaptureFlat[64 * c + i]]]

\* mutant of getCapturePawnMovesFromSquareIndex: the steps without their
\* edge-file guards
getCapturePawnMovesUnguarded(c, i) ==
    LET bb == toBitBoard(TheSquare(i))
        s1 == IF c = WHITE THEN Shl(W64, bb, 7) ELSE Shr(W64, bb, 9)
        s2 == IF c = WHITE THEN Shl(W64, bb, 9) ELSE Shr(W64, bb, 7)
    IN  Or(s1, s2)

getCapturePawnMovesFromSquareIndex(c, i) ==
    LET bb == toBitBoard(TheSquare(i))
        s1 == IF c = WHITE
              THEN Shl(W64, And(bb, Not(W64, FILES[FileA])), 7)
              ELSE Shr(W64, And(bb, Not(W64, FILES[FileA])), 9)
        s2 == IF c = WHITE
              THEN Shl(W64, And(bb, Not(W64, FILES[FileH])), 9)
              ELSE Shr(W64, And(bb, Not(W64, FILES[FileH])), 7)
    IN  Or(s1, s2)

\* np.fromiter(... for color in Color for i in range(64)): the flat array
PawnCaptureFlat ==
    [k \in 0 .. 127 |-> getCapturePawnMovesFromSquareIndex(k \div 64, k % 64)]

\* PAWN_CAPTURE.shape = (2, 64): row-major view of the flat array
PAWN_CAPTURE ==
    [c \in 0 .. 1 |-> [i \in 0 .. 63 |-> PawnCaptureFlat[64 * c + i]]]

\* mutant of DiagId: the offset of 7 left out of the anti-diagonal's formula
\* put in the diagonal's place
DiagIdBySum(square) == (square % 8) + (square \div 8)

\* diag_id = file - rank + 7
DiagId(square) == (square % 8) - (square \div 8) + 7

\* anti_diag_id = file + rank
AntiDiagId(square) == (square % 8) + (square \div 8)

\* precomputeDiagonalMasks: the two lists after the squares 0 .. square - 1
\* have been ORed in, each into the entry of its diagonal
RECURSIVE precomputeFrom(_, _, _)
precomputeFrom(square, principal_diags, anti_diags) ==
    IF square = 64
    THEN <<principal_diags, anti_diags>>
    ELSE precomputeFrom(square + 1,
             [principal_diags EXCEPT
                 ![DiagId(square)] = Or(@, Shl(W64, {0}, square))],
             [anti_diags EXCEPT
                 ![AntiDiagId(square)] = Or(@, Shl(W64, {0}, square))])

precomputeDiagonalMasks ==
    precomputeFrom(0, [d \in 0 .. 14 |-> EMPTY_BB], [a \in 0 .. 14 |-> EMPTY_BB])

DIAG_MASKS == precomputeDiagonalMasks[1]
ANTIDIAG_MASKS == precomputeDiagonalMasks[2]

\* getDiagonalMasks(square): the two ids and the two masks looked up
getDiagonalMasks(square) ==
    [diag_id |-> DiagId(square),
     anti_diag_id |-> AntiDiagId(square),
     principal_mask |-> DIAG_MASKS[DiagId(square)],
     anti_mask |-> ANTIDIAG_MASKS[AntiDiagId(square)]]

(* ------------------------------------------------------------------ *)
(* State: one call of the library in progress                          *)
(* ------------------------------------------------------------------ *)

VARIABLES
    pc,            \* "idle", then the name of the call made
    bb,            \* the caller's bitboard argument
    work,          \* occupiedSquares: the generator's own copy of bb
    yielded,       \* occupiedSquares: the sqIdx of the squares yielded so far
    ret,           \* what a bit scan ended in
    squareString,  \* the argument of getSquareFromString
    squareIndex,   \* the argument of Square(...) or of a per-square table
    sq,            \* what constructing the Square ended in (its sqIdx)
    text,          \* the result of str(square)
    board,         \* a bitboard result: toBitBoard, KING_MOVES, KNIGHT_MOVES
    line,          \* first-rank table: the mover's line position
    occ,           \* first-rank table: the occupancy byte
    rankAttacks,   \* first-rank table: the uint8 attack set
    count,         \* populationCount: the loop's counter
    pieces,        \* ChessBoard.pieces[colour][piece type]
    combinedColors,\* ChessBoard.combinedColors[colour]
    cbBoard,       \* ChessBoard.board
    color,         \* ChessBoard.color, the side to move
    calls,         \* the number of calls made on the ChessBoard
    pawnColor,     \* the colour a pawn table was looked up for
    diag_id,       \* getDiagonalMasks: the diagonal's index
    anti_diag_id,  \* getDiagonalMasks: the anti-diagonal's index
    principal_mask,\* getDiagonalMasks: the diagonal's mask
    anti_mask      \* getDiagonalMasks: the anti-diagonal's mask

vars == <<pc, bb, work, yielded, ret, squareString, squareIndex, sq, text,
          board, line, occ, rankAttacks, count, pieces, combinedColors,
          cbBoard, color, calls, pawnColor, diag_id, anti_diag_id,
          principal_mask, anti_mask>>

scanVars == <<bb, work, yielded, ret>>
squareVars == <<squareString, squareIndex, sq, text, board>>
rankVars == <<line, occ, rankAttacks>>
countVars == <<count>>
chessVars == <<pieces, combinedColors, cbBoard, color, calls>>
maskVars == <<pawnColor, diag_id, anti_diag_id, principal_mask, anti_mask>>

NoResult == Returned(-1)

Init ==
    /\ pc = "idle"
    /\ bb = EMPTY_BB
    /\ work = EMPTY_BB
    /\ yielded = <<>>
    /\ ret = NoResult
    /\ squareString = <<>>
    /\ squareIndex = -1
    /\ sq = NoResult
    /\ text = <<>>
    /\ board = EMPTY_BB
    /\ line = -1
    /\ occ = -1
    /\ rankAttacks = {}
    /\ count = 0
    /\ pieces = [c \in Colors |-> [p \in PieceTypes |-> EMPTY_BB]]
    /\ combinedColors = [c \in Colors |-> EMPTY_BB]
    /\ cbBoard = EMPTY_BB
    /\ color = WHITE
    /\ calls = 0
    /\ pawnColor = WHITE
    /\ diag_id = -1
    /\ anti_diag_id = -1
    /\ principal_mask = EMPTY_BB
    /\ anti_mask = EMPTY_BB

(* ------------------------------------------------------------------ *)
(* Inputs                                                              *)
(* ------------------------------------------------------------------ *)

MaxStride == 2
MaxTail == 1
IndexSlack == 2

\* lowest bit lo, highest bit hi, and every k-th bit between them (k = 0: none)
Pattern(lo, hi, k) ==
    {lo, hi} \cup (IF k = 0 THEN {} ELSE {i \in lo .. hi : (i - lo) % k = 0})

\* the zero board, every single square, every pair, every run, every comb
Bitboards ==
    {EMPTY_BB} \cup
    {Pattern(p[1], p[2], k) :
        p \in {q \in Word(W64) \X Word(W64) : q[1] <= q[2]}, k \in 0 .. MaxStride}

\* '0'..'9' and '`'..'i': the label characters and their neighbours
Alphabet == (48 .. 57) \cup (96 .. 105)

RECURSIVE Tails(_)
Tails(n) ==
    IF n = 0 THEN {<<>>}
    ELSE Tails(n - 1) \cup {<<c>> \o s : c \in {48, 97}, s \in Tails(n - 1)}

\* every string of at most two characters, and the two-character ones extended
Strings ==
    {<<>>} \cup {<<c>> : c \in Alphabet} \cup
    {<<c, d>> \o s : c \in Alphabet, d \in Alphabet, s \in Tails(MaxTail)}

\* every index a uint8 holds, and a few past it
Indices == 0 .. (255 + IndexSlack)

(* ------------------------------------------------------------------ *)
(* BitBoard.py calls                                                   *)
(* ------------------------------------------------------------------ *)

Ls1bBitScan ==
    /\ pc = "idle"
    /\ \E b \in Bitboards :
       /\ pc' = "ls1bBitScan"
       /\ bb' = b
       /\ ret' = Returned(ls1bBitScan(b))
       /\ UNCHANGED <<work, yielded, squareVars, rankVars, countVars, chessVars, maskVars>>

MsbBitScan ==
    /\ pc = "idle"
    /\ \E b \in Bitboards :
       /\ pc' = "msbBitScan"
       /\ bb' = b
       /\ ret' = Returned(msbBitScan(b))
       /\ UNCHANGED <<work, yielded, squareVars, rankVars, countVars, chessVars, maskVars>>

\* calling the generator function: nothing of its body has run yet
OccupiedSquares ==
    /\ pc = "idle"
    /\ \E b \in Bitboards :
       /\ pc' = "created"
       /\ bb' = b
       /\ work' = b
       /\ yielded' = <<>>
       /\ UNCHANGED <<ret, squareVars, rankVars, countVars, chessVars, maskVars>>

\* mutant of OccupiedResume: the highest square is scanned instead of the lowest
OccupiedResumeFromTop(w, seen) ==
    IF w # EMPTY_BB
    THEN [pc |-> "suspended", work |-> w,
          yielded |-> Append(seen, TheSquare(msbBitScan(w)))]
    ELSE [pc |-> "exhausted", work |-> w, yielded |-> seen]

\* the generator's body from where it stands to its next yield or its end
OccupiedResume(w, seen) ==
    IF w # EMPTY_BB
    THEN [pc |-> "suspended", work |-> w,
          yielded |-> Append(seen, TheSquare(ls1bBitScan(w)))]
    ELSE [pc |-> "exhausted", work |-> w, yielded |-> seen]

\* next() on the generator: when resumed after a yield it first clears the
\* yielded square (bb ^= lsb_square.toBitBoard()), then tests the loop again
OccupiedNext ==
    /\ pc \in {"created", "suspended"}
    /\ LET w == IF pc = "suspended"
                THEN Xor(work, toBitBoard(yielded[Len(yielded)]))
                ELSE work
           n == OccupiedResume(w, yielded)
       IN  /\ pc' = n.pc
           /\ work' = n.work
           /\ yielded' = n.yielded
    /\ UNCHANGED <<bb, ret, squareVars, rankVars, countVars, chessVars, maskVars>>

\* the board of the source's own test: populationCount(0xF0000F00000F0000) == 12
TestBoard == Hex64(<<15, 0, 0, 0, 0, 15, 0, 0, 0, 0, 0, 15, 0, 0, 0, 0>>)

\* calling populationCount: count = 0, the loop not yet entered
PopulationCount ==
    /\ pc = "idle"
    /\ \E b \in Bitboards \cup {TestBoard} :
       /\ pc' = "counting"
       /\ bb' = b
       /\ work' = b
       /\ count' = 0
       /\ UNCHANGED <<yielded, ret, squareVars, rankVars, chessVars, maskVars>>

\* mutant of ClearLs1b: the board is shifted down instead (bb >>= 1)
ClearByShift(b) == Shr(W64, b, 1)

\* bb &= bb - np.uint8(1)
ClearLs1b(b) == And(b, Sub(W64, b, {0}))

\* one iteration of the loop: while bb: count += 1; bb &= bb - 1
PopulationCountStep ==
    /\ pc = "counting"
    /\ work # EMPTY_BB
    /\ count' = count + 1
    /\ work' = ClearLs1b(work)
    /\ UNCHANGED <<pc, bb, yielded, ret, squareVars, rankVars, chessVars, maskVars>>

\* the loop test fails: return count
PopulationCountReturn ==
    /\ pc = "counting"
    /\ work = EMPTY_BB
    /\ pc' = "populationCount"
    /\ ret' = Returned(count)
    /\ UNCHANGED <<bb, work, yielded, squareVars, rankVars, countVars, chessVars, maskVars>>

(* ------------------------------------------------------------------ *)
(* Square.py calls                                                     *)
(* ------------------------------------------------------------------ *)

GetSquareFromString ==
    /\ pc = "idle"
    /\ \E s \in Strings :
       /\ pc' = "getSquareFromString"
       /\ squareString' = s
       /\ \E o \in getSquareFromString(s) : sq' = o
       /\ UNCHANGED <<scanVars, squareIndex, text, board, rankVars, countVars, chessVars, maskVars>>

NewSquare ==
    /\ pc = "idle"
    /\ \E i \in Indices :
       /\ pc' = "Square"
       /\ squareIndex' = i
       /\ \E o \in Square(i) : sq' = o
       /\ UNCHANGED <<scanVars, squareString, text, board, rankVars, countVars, chessVars, maskVars>>

\* str(square) of the square a call returned
Str ==
    /\ pc \in {"getSquareFromString", "Square"}
    /\ sq.exc = "none"
    /\ pc' = "str"
    /\ text' = SquareStr(sq.val)
    /\ UNCHANGED <<scanVars, squareString, squareIndex, sq, board, rankVars, countVars, chessVars, maskVars>>

\* Square(index).toBitBoard()
ToBitBoard ==
    /\ pc = "Square"
    /\ sq.exc = "none"
    /\ pc' = "toBitBoard"
    /\ \E b \in toBitBoardAny(sq.val) : board' = b
    /\ UNCHANGED <<scanVars, squareString, squareIndex, sq, text, rankVars, countVars, chessVars, maskVars>>

(* ------------------------------------------------------------------ *)
(* MovementRules.py tables                                             *)
(* ------------------------------------------------------------------ *)

KingMoves ==
    /\ pc = "idle"
    /\ \E i \in Word(W64) :
       /\ pc' = "KING_MOVES"
       /\ squareIndex' = i
       /\ board' = KING_MOVES[i]
       /\ UNCHANGED <<scanVars, squareString, sq, text, rankVars, countVars, chessVars, maskVars>>

KnightMoves ==
    /\ pc = "idle"
    /\ \E i \in Word(W64) :
       /\ pc' = "KNIGHT_MOVES"
       /\ squareIndex' = i
       /\ board' = KNIGHT_MOVES[i]
       /\ UNCHANGED <<scanVars, squareString, sq, text, rankVars, countVars, chessVars, maskVars>>

ComputeFirstRankMoves ==
    /\ pc = "idle"
    /\ \E i \in Word(W8), o \in 0 .. 255 :
       /\ pc' = "compute_first_rank_moves"
       /\ line' = i
       /\ occ' = o
       /\ rankAttacks' = compute_first_rank_moves(i, o)
       /\ UNCHANGED <<scanVars, squareVars, countVars, chessVars, maskVars>>

FirstRankMoves ==
    /\ pc = "idle"
    /\ \E i \in Word(W8), o \in 0 .. 255 :
       /\ pc' = "FIRST_RANK_MOVES"
       /\ line' = i
       /\ occ' = o
       /\ rankAttacks' = FIRST_RANK_MOVES[i][o]
       /\ UNCHANGED <<scanVars, squareVars, countVars, chessVars, maskVars>>

PawnNoCapture ==
    /\ pc = "idle"
    /\ \E c \in Colors, i \in Word(W64) :
       /\ pc' = "PAWN_NO_CAPTURE"
       /\ pawnColor' = c
       /\ squareIndex' = i
       /\ board' = PAWN_NO_CAPTURE[c][i]
       /\ UNCHANGED <<scanVars, squareString, sq, text, rankVars, countVars,
                      chessVars, diag_id, anti_diag_id, principal_mask, anti_mask>>

PawnCapture ==
    /\ pc = "idle"
    /\ \E c \in Colors, i \in Word(W64) :
       /\ pc' = "PAWN_CAPTURE"
       /\ pawnColor' = c
       /\ squareIndex' = i
       /\ board' = PAWN_CAPTURE[c][i]
       /\ UNCHANGED <<scanVars, squareString, sq, text, rankVars, countVars,
                      chessVars, diag_id, anti_diag_id, principal_mask, anti_mask>>

\* the entries DIAG_MASKS[d] and ANTIDIAG_MASKS[d] read
DiagMasks ==
    /\ pc = "idle"
    /\ \E d \in 0 .. 14 :
       /\ pc' = "DIAG_MASKS"
       /\ diag_id' = d
       /\ anti_diag_id' = d
       /\ principal_mask' = DIAG_MASKS[d]
       /\ anti_mask' = ANTIDIAG_MASKS[d]
       /\ UNCHANGED <<scanVars, squareVars, rankVars, countVars, chessVars,
                      pawnColor>>

GetDiagonalMasks ==
    /\ pc = "idle"
    /\ \E square \in Word(W64) :
       LET r == getDiagonalMasks(square)
       IN  /\ pc' = "getDiagonalMasks"
           /\ squareIndex' = square
           /\ diag_id' = r.diag_id
           /\ anti_diag_id' = r.anti_diag_id
           /\ principal_mask' = r.principal_mask
           /\ anti_mask' = r.anti_mask
           /\ UNCHANGED <<scanVars, squareString, sq, text, board, rankVars,
                          countVars, chessVars, pawnColor>>

(* ------------------------------------------------------------------ *)
(* ChessBoard.py                                                       *)
(* ------------------------------------------------------------------ *)

\* the number of calls made on one ChessBoard after init_game
MaxCalls == 2

\* the squares the calls are made on: a1 and e2 (White's at the start),
\* e4 (empty at the start) and h8 (Black's at the start)
TouchedSquares == {0, 12, 28, 63}

\* the default of the color parameter of the ChessBoard methods
None == -1
ColorArgs == Colors \cup {None}

\* the twelve literals init_game assigns
InitialPieces ==
    [c \in Colors |->
        IF c = WHITE
        THEN [p \in PieceTypes |->
                 CASE p = PAWN   -> Hex64(<<0, 0, 0, 0, 0, 0, 0, 0, 0, 0, 0, 0, 15, 15, 0, 0>>)
                   [] p = KNIGHT -> Hex64(<<0, 0, 0, 0, 0, 0, 0, 0, 0, 0, 0, 0, 0, 0, 4, 2>>)
                   [] p = BISHOP -> Hex64(<<0, 0, 0, 0, 0, 0, 0, 0, 0, 0, 0, 0, 0, 0, 2, 4>>)
                   [] p = ROOK   -> Hex64(<<0, 0, 0, 0, 0, 0, 0, 0, 0, 0, 0, 0, 0, 0, 8, 1>>)
                   [] p = QUEEN  -> Hex64(<<0, 0, 0, 0, 0, 0, 0, 0, 0, 0, 0, 0, 0, 0, 0, 8>>)
                   [] p = KING   -> Hex64(<<0, 0, 0, 0, 0, 0, 0, 0, 0, 0, 0, 0, 0, 0, 1, 0>>)]
        ELSE [p \in PieceTypes |->
                 CASE p = PAWN   -> Hex64(<<0, 0, 15, 15, 0, 0, 0, 0, 0, 0, 0, 0, 0, 0, 0, 0>>)
                   [] p = KNIGHT -> Hex64(<<4, 2, 0, 0, 0, 0, 0, 0, 0, 0, 0, 0, 0, 0, 0, 0>>)
                   [] p = BISHOP -> Hex64(<<2, 4, 0, 0, 0, 0, 0, 0, 0, 0, 0, 0, 0, 0, 0, 0>>)
                   [] p = ROOK   -> Hex64(<<8, 1, 0, 0, 0, 0, 0, 0, 0, 0, 0, 0, 0, 0, 0, 0>>)
                   [] p = QUEEN  -> Hex64(<<0, 8, 0, 0, 0, 0, 0, 0, 0, 0, 0, 0, 0, 0, 0, 0>>)
                   [] p = KING   -> Hex64(<<1, 0, 0, 0, 0, 0, 0, 0, 0, 0, 0, 0, 0, 0, 0, 0>>)]]

\* for p in PieceType: for c in Color: combinedColors[c] |= pieces[c][p]
RECURSIVE CombineFrom(_, _, _, _)
CombineFrom(ps, cc, c, p) ==
    IF p > KING THEN cc ELSE CombineFrom(ps, Or(cc, ps[c][p]), c, p + 1)

\* mutant of Combined: the loop leaves out the first piece type, the pawns
CombinedWithoutPawns(ps, cc, c) == CombineFrom(ps, cc, c, KNIGHT)

\* combinedColors[c] once the loop over all of PieceType has run
Combined(ps, cc, c) == CombineFrom(ps, cc, c, PAWN)

\* init_game on a board as the constructor left it
InitGame ==
    /\ pc = "idle"
    /\ pc' = "init_game"
    /\ pieces' = InitialPieces
    /\ combinedColors' =
           [c \in Colors |-> Combined(pieces', combinedColors[c], c)]
    /\ cbBoard' = Or(combinedColors'[WHITE], combinedColors'[BLACK])
    /\ UNCHANGED <<color, calls, scanVars, squareVars, rankVars, countVars, maskVars>>

\* the position init_game has set up, with calls still to be made on it
BoardInPlay ==
    /\ pc \in {"init_game", "setPieceOnSquare", "clearSquare"}
    /\ calls < MaxCalls

\* if color is None: color = self.color
ColorOf(c) == IF c = None THEN color ELSE c

\* setPieceOnSquare(sq, piece, color)
SetPieceOnSquare ==
    /\ BoardInPlay
    /\ \E s \in TouchedSquares, piece \in PieceTypes, c \in ColorArgs :
       LET col == ColorOf(c)
           pieceBB == pieces[col][piece]
           colorBB == combinedColors[col]
           boardBB == cbBoard
       IN  /\ pc' = "setPieceOnSquare"
           /\ calls' = calls + 1
           /\ pieces' = [pieces EXCEPT ![col][piece] = setSquareOnBB(pieceBB, s)]
           /\ combinedColors' =
                  [combinedColors EXCEPT ![col] = setSquareOnBB(colorBB, s)]
           /\ cbBoard' = setSquareOnBB(boardBB, s)
           /\ ret' = NoResult
           /\ UNCHANGED <<color, bb, work, yielded, squareVars, rankVars, countVars, maskVars>>

\* PieceType.humanReadable
humanReadable(p) == <<"P", "N", "B", "R", "Q", "K">>[p + 1]

\* pieceOnSquare as written: its test is a call of isSet, a name BitBoard.py
\* does not define, so the first evaluation of the test raises NameError
pieceOnSquare(ps, s, col) == Raised("NameError")

\* clearSquare as written: pieceOnSquare raises before any board is touched
ClearSquare ==
    /\ BoardInPlay
    /\ \E s \in TouchedSquares, c \in ColorArgs :
       LET piece == pieceOnSquare(pieces, s, ColorOf(c))
       IN  /\ piece.exc # "none"
           /\ pc' = "clearSquare"
           /\ calls' = calls + 1
           /\ ret' = piece
           /\ UNCHANGED <<pieces, combinedColors, cbBoard, color, bb, work,
                          yielded, squareVars, rankVars, countVars, maskVars>>

\* pieceOnSquare with isSet read as checkIfSquareIsSet: the letter of the first
\* piece type of the colour that has the square set, "None" when there is none
pieceOnSquareFound(ps, s, col) ==
    LET found == {p \in PieceTypes : checkIfSquareIsSet(ps[col][p], s)}
    IN  IF found = {}
        THEN "None"
        ELSE humanReadable(CHOOSE p \in found : \A q \in found : p <= q)

\* the piece type a letter of humanReadable stands for
PieceOfLetter(l) == CHOOSE p \in PieceTypes : humanReadable(p) = l

\* clearSquare with the piece found by pieceOnSquare taken as its piece type
ClearSquareFound ==
    /\ BoardInPlay
    /\ \E s \in TouchedSquares, c \in ColorArgs :
       LET col == ColorOf(c)
           letter == pieceOnSquareFound(pieces, s, col)
       IN  /\ pc' = "clearSquare"
           /\ calls' = calls + 1
           /\ ret' = NoResult
           /\ IF letter = "None"
              THEN UNCHANGED <<pieces, combinedColors, cbBoard>>
              ELSE LET piece == PieceOfLetter(letter)
                       pieceBB == pieces[col][piece]
                       colorBB == combinedColors[col]
                       boardBB == cbBoard
                   IN  /\ pieces' = [pieces EXCEPT
                                        ![col][piece] = clearSquareOnBB(pieceBB, s)]
                       /\ combinedColors' = [combinedColors EXCEPT
                                                ![col] = clearSquareOnBB(colorBB, s)]
                       /\ cbBoard' = clearSquareOnBB(boardBB, s)
           /\ UNCHANGED <<color, bb, work, yielded, squareVars, rankVars, countVars, maskVars>>

(* ------------------------------------------------------------------ *)
(* Specifications                                                      *)
(* ------------------------------------------------------------------ *)

NextScan == Ls1bBitScan \/ MsbBitScan \/ OccupiedSquares \/ OccupiedNext

NextSquare == GetSquareFromString \/ NewSquare \/ Str \/ ToBitBoard

NextTables == KingMoves \/ KnightMoves \/ ComputeFirstRankMoves \/ FirstRankMoves

NextMasks == PawnNoCapture \/ PawnCapture \/ DiagMasks \/ GetDiagonalMasks

NextCount == PopulationCount \/ PopulationCountStep \/ PopulationCountReturn

\* the ChessBoard as written
NextBoard == InitGame \/ SetPieceOnSquare \/ ClearSquare

\* the ChessBoard with clearSquare finding its piece
NextBoardFound == InitGame \/ SetPieceOnSquare \/ ClearSquareFound

Next == NextScan \/ NextSquare \/ NextTables \/ NextMasks \/ NextCount \/ NextBoard

SpecScan == Init /\ [][NextScan]_vars
SpecSquare == Init /\ [][NextSquare]_vars
SpecTables == Init /\ [][NextTables]_vars
SpecMasks == Init /\ [][NextMasks]_vars
SpecCount == Init /\ [][NextCount]_vars
SpecBoard == Init /\ [][NextBoard]_vars
SpecBoardFound == Init /\ [][NextBoardFound]_vars
Spec == Init /\ [][Next]_vars

(* ------------------------------------------------------------------ *)
(* Properties                                                          *)
(* ------------------------------------------------------------------ *)

LowestBit(b) == CHOOSE i \in b : \A j \in b : i <= j
HighestBit(b) == CHOOSE i \in b : \A j \in b : j <= i

\* C1: for every nonzero bitboard, ls1bBitScan returns the index of its
\* lowest set bit
C1_Ls1bIsLowestSetBit ==
    (pc = "ls1bBitScan" /\ bb # EMPTY_BB) => ret = Returned(LowestBit(bb))

\* the source's own test: ls1bBitScan(0xF000000000000000) == 60
C1_Witness == pc = "ls1bBitScan" /\ bb = 60 .. 63 /\ ret = Returned(60)

\* C2: for every nonzero bitboard, msbBitScan returns the index of its
\* highest set bit
C2_MsbIsHighestSetBit ==
    (pc = "msbBitScan" /\ bb # EMPTY_BB) => ret = Returned(HighestBit(bb))

\* a board whose set bits lie 63 apart: the fill-down has to cross all of it
C2_Witness == pc = "msbBitScan" /\ bb = {0, 63} /\ ret = Returned(63)

StrictlyIncreasing(s) == \A i \in 1 .. Len(s) - 1 : s[i] < s[i + 1]
SquaresOf(s) == {s[i] : i \in 1 .. Len(s)}

\* the squares the generator has still to yield: its working copy, less the
\* square it is suspended on (cleared only when it is resumed)
Pending ==
    IF pc = "suspended" THEN work \ {yielded[Len(yielded)]} ELSE work

\* C3: occupiedSquares(bb) yields squares in strictly increasing order; the
\* squares yielded and the squares still pending always split bb, so every
\* next() moves one square from pending to yielded and the generator ends
\* after exactly populationCount(bb) yields, when the single-bit boards of the
\* yielded squares OR to bb; for bb = 0 it yields nothing
C3_OccupiedSquaresEnumerates ==
    pc \in {"created", "suspended", "exhausted"} =>
        /\ StrictlyIncreasing(yielded)
        /\ SquaresOf(yielded) \cup Pending = bb
        /\ SquaresOf(yielded) \cap Pending = {}
        /\ (bb = EMPTY_BB => yielded = <<>>)
        /\ pc = "exhausted" =>
              /\ Pending = EMPTY_BB
              /\ Len(yielded) = populationCount(bb)
              /\ SquaresOf(yielded) = bb

\* the full board enumerated to its end: 64 squares
C3_Witness == pc = "exhausted" /\ bb = Word(W64) /\ Len(yielded) = 64

FileOf(s) == s % 8
RankOf(s) == s \div 8
Dist(a, b) == IF a < b THEN b - a ELSE a - b

KingNeighbours(s) ==
    {t \in Word(W64) : t # s /\ Dist(FileOf(s), FileOf(t)) <= 1
                              /\ Dist(RankOf(s), RankOf(t)) <= 1}

\* C4: KING_MOVES[sq] is exactly the on-board squares one step away in file
\* and rank, without sq and without wraparound; 8 squares from d4, and
\* {a2, b1, b2} from a1
C4_KingMovesAreNeighbours ==
    pc = "KING_MOVES" =>
        /\ board = KingNeighbours(squareIndex)
        /\ (squareIndex = 27 => Cardinality(board) = 8)
        /\ (squareIndex = 0 => board = {8, 1, 9})

\* the king on h1, where an unguarded shift would wrap to file A
C4_Witness == pc = "KING_MOVES" /\ squareIndex = 7 /\ board = {6, 14, 15}

KnightJumps(s) ==
    {t \in Word(W64) :
        <<Dist(FileOf(s), FileOf(t)), Dist(RankOf(s), RankOf(t))>>
            \in {<<1, 2>>, <<2, 1>>}}

\* C5: KNIGHT_MOVES[sq] is exactly the on-board squares an L-step away,
\* without wraparound; {b3, c2} from a1
C5_KnightMovesAreJumps ==
    pc = "KNIGHT_MOVES" =>
        /\ board = KnightJumps(squareIndex)
        /\ (squareIndex = 0 => board = {17, 10})

\* the knight on b1, one file from the edge
C5_Witness == pc = "KNIGHT_MOVES" /\ squareIndex = 1 /\ board = {11, 16, 18}

AtLine3Occ17 ==
    /\ pc \in {"compute_first_rank_moves", "FIRST_RANK_MOVES"}
    /\ line = 3
    /\ occ = 17

\* C6 as stated: the mover at line position 3 with occupancy 0b00010001
\* attacks exactly {1, 2, 4}, computed and in the table
C6_AsStated == AtLine3Occ17 => rankAttacks = {1, 2, 4}

\* C6 amended: the attack set is {0, 1, 2, 4}, the blocker at position 0
\* included, computed and in the table
C6_AttacksIncludeBothBlockers == AtLine3Occ17 => rankAttacks = {0, 1, 2, 4}

\* the table entry [3][0b00010001] looked up
C6_Witness ==
    pc = "FIRST_RANK_MOVES" /\ line = 3 /\ occ = 17 /\ rankAttacks = {0, 1, 2, 4}

\* C7: a bit scan of the zero bitboard ends in an error (EmptyBitboardScan;
\* the code declares no such class, so any exception raised counts as it) and
\* never returns a square index
C7_EmptyScanRaises ==
    (pc \in {"ls1bBitScan", "msbBitScan"} /\ bb = EMPTY_BB) => ret.exc # "none"

ValidLabel(s) == Len(s) = 2 /\ s[1] \in 97 .. 104 /\ s[2] \in 49 .. 56

\* C8: getSquareFromString fails on every string that is not a file letter
\* a..h followed by a rank digit 1..8 (MalformedNotation; the code declares no
\* such class, so any exception raised counts as it) and never returns a
\* Square for it
C8_MalformedNotationRaises ==
    (pc = "getSquareFromString" /\ ~ValidLabel(squareString)) => sq.exc # "none"

\* C9: each of the 64 labels parses to index 8*(rank-1) + (file-'a') in
\* 0..63 and prints back as itself
C9_LabelRoundTrip ==
    (pc \in {"getSquareFromString", "str"} /\ ValidLabel(squareString)) =>
        /\ sq = Returned(8 * (squareString[2] - 49) + (squareString[1] - 97))
        /\ sq.val \in 0 .. 63
        /\ pc = "str" => text = squareString

\* "h8" parsed to 63 and printed
C9_Witness ==
    pc = "str" /\ squareString = <<104, 56>> /\ sq = Returned(63) /\ text = <<104, 56>>

\* C10: Square(index).toBitBoard() is 1 << index for index in 0..63 and fails
\* for every other index (InvalidSquareIndex), so the call never returns a
\* bitboard for an index outside 0..63
C10_ToBitBoardChecksIndex ==
    pc = "toBitBoard" => (squareIndex \in 0 .. 63 /\ board = {squareIndex})

\* C11: populationCount(bb) returns the number of set bits of bb; every
\* iteration of its loop clears exactly one bit (the counter and the bits left
\* always add up to the bits of bb), so the loop ends after exactly that many
\* iterations: 0 for the zero board, 64 for the full one, 1 for a single bit
C11_PopulationCountCounts ==
    /\ pc = "counting" => count + Cardinality(work) = Cardinality(bb)
    /\ pc = "populationCount" =>
           /\ ret = Returned(Cardinality(bb))
           /\ count = Cardinality(bb)
           /\ work = EMPTY_BB
           /\ (bb = EMPTY_BB => ret.val = 0)
           /\ (bb = Word(W64) => ret.val = 64)
           /\ (\E i \in Word(W64) : bb = {i}) => ret.val = 1

\* the full board counted: 64 iterations
C11_Witness ==
    pc = "populationCount" /\ bb = Word(W64) /\ count = 64 /\ ret = Returned(64)

\* the whole run of the occupiedSquares generator on a bitboard: the squares
\* it yields, in order
RECURSIVE Enumerate(_, _)
Enumerate(w, seen) ==
    LET n == OccupiedResume(w, seen)
    IN  IF n.pc = "exhausted"
        THEN n.yielded
        ELSE Enumerate(Xor(n.work, toBitBoard(n.yielded[Len(n.yielded)])), n.yielded)

\* the square of a file and a rank, both counted from 0
At(file, rank) == 8 * rank + file

\* the squares of the files fs on one rank, from the lowest file up
OnRank(fs, rank) == [k \in 1 .. Len(fs) |-> At(fs[k], rank)]

\* the starting squares of a piece type on its side's pawn rank and back rank
Canonical(p, pawnRank, backRank) ==
    CASE p = PAWN   -> OnRank(<<0, 1, 2, 3, 4, 5, 6, 7>>, pawnRank)
      [] p = KNIGHT -> OnRank(<<1, 6>>, backRank)
      [] p = BISHOP -> OnRank(<<2, 5>>, backRank)
      [] p = ROOK   -> OnRank(<<0, 7>>, backRank)
      [] p = QUEEN  -> OnRank(<<3>>, backRank)
      [] p = KING   -> OnRank(<<4>>, backRank)

\* C12: right after init_game the twelve piece bitboards are pairwise
\* disjoint and hold 32 squares in all; enumerating them gives White's pawns
\* on a2..h2, knights b1 g1, bishops c1 f1, rooks a1 h1, queen d1, king e1 and
\* Black's on the same files of ranks 7 and 8; combinedColors[c] is the union
\* of colour c's six bitboards and board is the union of both colours
C12_InitGameCanonical ==
    pc = "init_game" =>
        /\ \A c1, c2 \in Colors : \A p1, p2 \in PieceTypes :
               (<<c1, p1>> # <<c2, p2>>) =>
                   And(pieces[c1][p1], pieces[c2][p2]) = EMPTY_BB
        /\ populationCount(cbBoard) = 32
        /\ \A p \in PieceTypes :
               /\ Enumerate(pieces[WHITE][p], <<>>) = Canonical(p, 1, 0)
               /\ Enumerate(pieces[BLACK][p], <<>>) = Canonical(p, 6, 7)
        /\ \A c \in Colors :
               combinedColors[c] = UNION {pieces[c][p] : p \in PieceTypes}
        /\ cbBoard = combinedColors[WHITE] \cup combinedColors[BLACK]

C12_Witness ==
    /\ pc = "init_game"
    /\ Cardinality(cbBoard) = 32
    /\ pieces[WHITE][KING] = {4}
    /\ pieces[BLACK][QUEEN] = {59}

\* the positions strictly between two positions of a line
Between(a, b) == {k \in Word(W8) : (a < k /\ k < b) \/ (b < k /\ k < a)}

\* the occupancy byte with the bit of one position flipped
FlipBit(o, i) == IF i \in ToBits(W8, o) THEN o - 2 ^ i ELSE o + 2 ^ i

\* C13: for every line position i in 0..7 and occupancy byte occ in 0..255,
\* FIRST_RANK_MOVES[i][occ] is exactly the set of positions j # i with no
\* occupied position strictly between i and j: each ray runs up to and
\* including its nearest blocker, or to the edge; the mover's position is
\* never in the result, and the result does not depend on bit i of occ
C13_FirstRankRays ==
    pc = "FIRST_RANK_MOVES" =>
        /\ rankAttacks =
               {j \in Word(W8) \ {line} : Between(line, j) \cap ToBits(W8, occ) = {}}
        /\ line \notin rankAttacks
        /\ rankAttacks = FIRST_RANK_MOVES[line][FlipBit(occ, line)]

\* the mover on position 3 with its own bit set and a blocker on either side
C13_Witness ==
    pc = "FIRST_RANK_MOVES" /\ line = 3 /\ occ = 89 /\ rankAttacks = {0, 1, 2, 4}

\* the direction a colour's pawns move in, in ranks
Forward(c) == IF c = WHITE THEN 1 ELSE -1

\* the square a number of files and ranks away, when it is on the board
Offset(s, df, dr) ==
    IF FileOf(s) + df \in 0 .. 7 /\ RankOf(s) + dr \in 0 .. 7
    THEN {8 * (RankOf(s) + dr) + FileOf(s) + df}
    ELSE {}

\* C14: PAWN_NO_CAPTURE[colour][sq] holds the square one rank forward (sq + 8
\* for White, sq - 8 for Black) when it is on the board, the square two ranks
\* forward exactly when sq is on the colour's starting rank (rank 2 for
\* White, rank 7 for Black), and nothing else; it is empty for White on rank
\* 8 and for Black on rank 1
C14_PawnQuietMoves ==
    pc = "PAWN_NO_CAPTURE" =>
        LET c == pawnColor
            s == squareIndex
            start == IF c = WHITE THEN RankTwo ELSE RankSeven
            last == IF c = WHITE THEN 7 ELSE 0
        IN  /\ board = Offset(s, 0, Forward(c)) \cup
                       (IF RankOf(s) = start THEN {s + 16 * Forward(c)} ELSE {})
            /\ (s + 8 * Forward(c) \in board) = (s + 8 * Forward(c) \in Word(W64))
            /\ (s + 16 * Forward(c) \in board) = (RankOf(s) = start)
            /\ RankOf(s) = last => board = EMPTY_BB

\* a Black pawn on e7: one step to e6, two steps to e5
C14_Witness ==
    pc = "PAWN_NO_CAPTURE" /\ pawnColor = BLACK /\ squareIndex = 52 /\ board = {44, 36}

\* C15: PAWN_CAPTURE[colour][sq] is exactly the set of squares on the board
\* one rank forward for the colour and one file to either side of sq; no
\* square reached by wrapping round the a- or h-file is in it
C15_PawnCaptures ==
    pc = "PAWN_CAPTURE" =>
        LET c == pawnColor
            s == squareIndex
        IN  /\ board = Offset(s, -1, Forward(c)) \cup Offset(s, 1, Forward(c))
            /\ \A t \in board : Dist(FileOf(t), FileOf(s)) = 1

\* a White pawn on h2 attacks g3 only
C15_Witness ==
    pc = "PAWN_CAPTURE" /\ pawnColor = WHITE /\ squareIndex = 15 /\ board = {22}

\* C16: DIAG_MASKS and ANTIDIAG_MASKS are each 15 pairwise disjoint masks
\* whose union is all 64 squares; sq is in DIAG_MASKS[d] iff
\* d = file(sq) - rank(sq) + 7 and in ANTIDIAG_MASKS[a] iff
\* a = file(sq) + rank(sq); the two masks getDiagonalMasks(sq) returns both
\* contain sq, and the ids it computes are in 0..14
C16_DiagonalMasksPartition ==
    /\ pc = "DIAG_MASKS" =>
           /\ DOMAIN DIAG_MASKS = 0 .. 14
           /\ DOMAIN ANTIDIAG_MASKS = 0 .. 14
           /\ \A e \in (0 .. 14) \ {diag_id} :
                  /\ And(principal_mask, DIAG_MASKS[e]) = EMPTY_BB
                  /\ And(anti_mask, ANTIDIAG_MASKS[e]) = EMPTY_BB
           /\ UNION {DIAG_MASKS[e] : e \in 0 .. 14} = Word(W64)
           /\ UNION {ANTIDIAG_MASKS[e] : e \in 0 .. 14} = Word(W64)
           /\ principal_mask =
                  {s \in Word(W64) : diag_id = FileOf(s) - RankOf(s) + 7}
           /\ anti_mask =
                  {s \in Word(W64) : anti_diag_id = FileOf(s) + RankOf(s)}
    /\ pc = "getDiagonalMasks" =>
           /\ squareIndex \in principal_mask
           /\ squareIndex \in anti_mask
           /\ diag_id \in 0 .. 14
           /\ anti_diag_id \in 0 .. 14

\* the two masks through e4
C16_Witness ==
    /\ pc = "getDiagonalMasks"
    /\ squareIndex = 28
    /\ principal_mask = {1, 10, 19, 28, 37, 46, 55}
    /\ anti_mask = {7, 14, 21, 28, 35, 42, 49, 56}

====
